---- MODULE Spec2Model ----
(***************************************************************************)
(* Binary operation calculator: Lexer -> Parser -> Calculator.             *)
(*                                                                         *)
(* The text is a sequence of one-character strings, the lexer cursor `pos` *)
(* is the 0-based Python index, the recursive descent of the parser is a   *)
(* call stack of frames, and the generators made by result_iterator are    *)
(* frames that advance from one yield to the next.                         *)
(***************************************************************************)
EXTENDS Integers, Sequences, FiniteSets, TLC

VARIABLES text, pos, current_token, variables, stack, ret, phase, exc,
          tree, labels, iters, out

vars == <<text, pos, current_token, variables, stack, ret, phase, exc,
          tree, labels, iters, out>>

(***************************************************************************)
(* Bounds of the inputs.                                                   *)
(***************************************************************************)
\* longest text of the exhaustive family
MaxLen == 3
\* most binary operators in a text of the unparenthesised family
MaxOps == 2

(***************************************************************************)
(* Tokens                                                                  *)
(***************************************************************************)
None == "None"

LPAREN == "("
RPAREN == ")"
VAR == "variable"
NOT == "!"
AND == "&"
XOR == "^"
OR == "|"
EOF == "EOF"

SINGLE_CHARACTER_TOKENS == {"(", ")", "!", "&", "^", "|"}

Token(token_type, value) == [type |-> token_type, value |-> value]

NoToken == Token(None, None)

\* str.isspace and str.isalnum on the characters the inputs are drawn from
isspace(c) == c \in {" "}

isalnum(c) == c \in {"a", "b", "c", "d", "1"}

(***************************************************************************)
(* Lexer                                                                   *)
(***************************************************************************)
NoExc == [msg |-> <<>>, pos |-> 0]

\* raise Exception(f"{msg} in pos={self.pos}\n"); msg is the pair of its
\* literal part and the value it quotes between backticks
raise_exception(msg, p) == [msg |-> msg, pos |-> p]

RECURSIVE skip_whitespaces(_, _)
skip_whitespaces(txt, p) ==
    IF p < Len(txt) /\ isspace(txt[p + 1])
    THEN skip_whitespaces(txt, p + 1)
    ELSE p

RECURSIVE scan_variable(_, _)
scan_variable(txt, p) ==
    IF p < Len(txt) /\ isalnum(txt[p + 1])
    THEN LET rest == scan_variable(txt, p + 1) IN
         [value |-> txt[p + 1] \o rest.value, pos |-> rest.pos]
    ELSE [value |-> "", pos |-> p]

\* r.ok: a token is returned; otherwise r.exc is raised.  r.pos is the
\* cursor the call leaves behind in both cases.
get_next_token_SkipUnreported(txt, p) ==
    LET q == skip_whitespaces(txt, p) IN
    IF q >= Len(txt)
    THEN [ok |-> TRUE, token |-> Token(EOF, None), pos |-> q, exc |-> NoExc]
    ELSE IF txt[q + 1] \in SINGLE_CHARACTER_TOKENS
    THEN [ok |-> TRUE, token |-> Token(txt[q + 1], None), pos |-> q + 1,
          exc |-> NoExc]
    ELSE IF isalnum(txt[q + 1])
    THEN LET v == scan_variable(txt, q) IN
         [ok |-> TRUE, token |-> Token(VAR, v.value), pos |-> v.pos, exc |-> NoExc]
    ELSE [ok |-> FALSE, token |-> NoToken, pos |-> q,
          exc |-> raise_exception(<<"Invalid character", txt[q + 1]>>, p)]

get_next_token(txt, p) ==
    LET q == skip_whitespaces(txt, p) IN
    IF q >= Len(txt)
    THEN [ok |-> TRUE, token |-> Token(EOF, None), pos |-> q, exc |-> NoExc]
    ELSE IF txt[q + 1] \in SINGLE_CHARACTER_TOKENS
    THEN [ok |-> TRUE, token |-> Token(txt[q + 1], None), pos |-> q + 1,
          exc |-> NoExc]
    ELSE IF isalnum(txt[q + 1])
    THEN LET v == scan_variable(txt, q) IN
         [ok |-> TRUE, token |-> Token(VAR, v.value), pos |-> v.pos, exc |-> NoExc]
    ELSE [ok |-> FALSE, token |-> NoToken, pos |-> q,
          exc |-> raise_exception(<<"Invalid character", txt[q + 1]>>, q)]

(***************************************************************************)
(* Abstract syntax tree                                                    *)
(***************************************************************************)
NoNode == [kind |-> None]

BinaryOperator_Swapped(token, operator, left, right) ==
    [kind |-> "BinaryOperator", token |-> token, operator |-> operator,
     left |-> right, right |-> left]

BinaryOperator(token, operator, left, right) ==
    [kind |-> "BinaryOperator", token |-> token, operator |-> operator,
     left |-> left, right |-> right]

UnaryOperator(token, operator, expr) ==
    [kind |-> "UnaryOperator", token |-> token, operator |-> operator,
     expr |-> expr]

Variable(token, variable_id) ==
    [kind |-> "Variable", token |-> token, id |-> variable_id]

(***************************************************************************)
(* Parser                                                                  *)
(***************************************************************************)
\* self.variables: the dict as its items in insertion order
keys(d) == [i \in 1..Len(d) |-> d[i].key]

has_key(d, k) == \E i \in 1..Len(d) : d[i].key = k

lookup(d, k) == d[CHOOSE i \in 1..Len(d) : d[i].key = k].value

\* dict.setdefault(k, default): the dict afterwards and the value returned
setdefault_Overwrite(d, k, default) ==
    IF has_key(d, k)
    THEN [dict |-> [i \in 1..Len(d) |->
                      IF d[i].key = k THEN [key |-> k, value |-> default]
                      ELSE d[i]],
          value |-> default]
    ELSE [dict |-> Append(d, [key |-> k, value |-> default]), value |-> default]

setdefault(d, k, default) ==
    IF has_key(d, k)
    THEN [dict |-> d, value |-> lookup(d, k)]
    ELSE [dict |-> Append(d, [key |-> k, value |-> default]), value |-> default]

\* eat_token: the same result shape as get_next_token
eat_token_Unchecked(cur, token_type, txt, p) == get_next_token(txt, p)

eat_token(cur, token_type, txt, p) ==
    IF cur.type # token_type
    THEN [ok |-> FALSE, token |-> cur, pos |-> p,
          exc |-> raise_exception(<<"Invalid syntax, expected", token_type>>, p)]
    ELSE get_next_token(txt, p)

\* the three binary levels of the grammar: the rule each calls for its
\* operands, the token its loop looks for, the operator it builds
BinaryLevels == {"expr_OR", "expr_XOR", "expr_AND"}

operand_rule_XorBelowAnd(fn) ==
    CASE fn = "expr_OR" -> "expr_AND"
      [] fn = "expr_AND" -> "expr_XOR"
      [] fn = "expr_XOR" -> "factor"

operand_rule(fn) ==
    CASE fn = "expr_OR" -> "expr_XOR"
      [] fn = "expr_XOR" -> "expr_AND"
      [] fn = "expr_AND" -> "factor"

loop_token(fn) ==
    CASE fn = "expr_OR" -> OR
      [] fn = "expr_XOR" -> XOR
      [] fn = "expr_AND" -> AND

level_operator(fn) ==
    CASE fn = "expr_OR" -> "or_"
      [] fn = "expr_XOR" -> "xor"
      [] fn = "expr_AND" -> "and_"

Frame(fn, pc, token, node) == [fn |-> fn, pc |-> pc, token |-> token, node |-> node]

Call(fn) == Frame(fn, "start", NoToken, NoNode)

Top == stack[Len(stack)]

Below == SubSeq(stack, 1, Len(stack) - 1)

Running(fn, pc) ==
    /\ phase = "parsing"
    /\ stack # <<>>
    /\ Top.fn = fn
    /\ Top.pc = pc

\* an exception leaves through every frame: nothing catches it
Raise(r) ==
    /\ phase' = "failed"
    /\ exc' = r.exc
    /\ pos' = r.pos
    /\ stack' = <<>>
    /\ UNCHANGED <<text, current_token, variables, ret, tree, labels, iters, out>>

\* Parser.__init__ (Lexer.__init__ is Init)
Parser_init ==
    /\ phase = "lexer"
    /\ LET r == get_next_token(text, pos) IN
       IF r.ok
       THEN /\ current_token' = r.token
            /\ pos' = r.pos
            /\ variables' = <<>>
            /\ phase' = "parser"
            /\ UNCHANGED <<text, stack, ret, exc, tree, labels, iters, out>>
       ELSE Raise(r)

\* Calculator.__init__ calls parser.parse(), which calls expr()
Calculator_init ==
    /\ phase = "parser"
    /\ phase' = "parsing"
    /\ stack' = <<Call("expr")>>
    /\ UNCHANGED <<text, pos, current_token, variables, ret, exc, tree, labels,
                   iters, out>>

\* expr : expr_OR EOF
expr_call ==
    /\ Running("expr", "start")
    /\ stack' = Below \o <<Frame("expr", "eat", NoToken, NoNode), Call("expr_OR")>>
    /\ UNCHANGED <<text, pos, current_token, variables, ret, phase, exc, tree,
                   labels, iters, out>>

expr_return ==
    /\ Running("expr", "eat")
    /\ LET r == eat_token(current_token, EOF, text, pos) IN
       IF r.ok
       THEN /\ current_token' = r.token
            /\ pos' = r.pos
            /\ stack' = Below
            /\ tree' = ret
            /\ phase' = "ready"
            /\ UNCHANGED <<text, variables, ret, exc, labels, iters, out>>
       ELSE Raise(r)

\* node = self.<operand rule>()
binary_call(fn) ==
    /\ Running(fn, "start")
    /\ stack' = Below \o <<Frame(fn, "first", NoToken, NoNode), Call(operand_rule(fn))>>
    /\ UNCHANGED <<text, pos, current_token, variables, ret, phase, exc, tree,
                   labels, iters, out>>

\* the while loop of a binary rule, entered with `node`
binary_loop(fn, node) ==
    IF current_token.type = loop_token(fn)
    THEN LET token == current_token
             r == eat_token(current_token, loop_token(fn), text, pos) IN
         IF r.ok
         THEN /\ current_token' = r.token
              /\ pos' = r.pos
              /\ stack' = Below \o <<Frame(fn, "fold", token, node),
                                     Call(operand_rule(fn))>>
              /\ UNCHANGED <<text, variables, ret, phase, exc, tree, labels,
                             iters, out>>
         ELSE Raise(r)
    ELSE /\ stack' = Below
         /\ ret' = node
         /\ UNCHANGED <<text, pos, current_token, variables, phase, exc, tree,
                        labels, iters, out>>

binary_first(fn) ==
    /\ Running(fn, "first")
    /\ binary_loop(fn, ret)

\* node = BinaryOperator(token, op, node, self.<operand rule>())
binary_fold(fn) ==
    /\ Running(fn, "fold")
    /\ binary_loop(fn, BinaryOperator(Top.token, level_operator(fn),
                                      Top.node, ret))

\* factor : NOT factor | VAR | LPAREN expr_OR RPAREN
factor_NOT ==
    /\ Running("factor", "start")
    /\ current_token.type = NOT
    /\ LET token == current_token
           r == eat_token(current_token, NOT, text, pos) IN
       IF r.ok
       THEN /\ current_token' = r.token
            /\ pos' = r.pos
            /\ stack' = Below \o <<Frame("factor", "not", token, NoNode),
                                   Call("factor")>>
            /\ UNCHANGED <<text, variables, ret, phase, exc, tree, labels,
                           iters, out>>
       ELSE Raise(r)

factor_NOT_return ==
    /\ Running("factor", "not")
    /\ stack' = Below
    /\ ret' = UnaryOperator(Top.token, "not_", ret)
    /\ UNCHANGED <<text, pos, current_token, variables, phase, exc, tree,
                   labels, iters, out>>

factor_VAR ==
    /\ Running("factor", "start")
    /\ current_token.type = VAR
    /\ LET token == current_token
           r == eat_token(current_token, VAR, text, pos)
           s == setdefault(variables, token.value, Len(variables)) IN
       IF r.ok
       THEN /\ current_token' = r.token
            /\ pos' = r.pos
            /\ variables' = s.dict
            /\ ret' = Variable(token, s.value)
            /\ stack' = Below
            /\ UNCHANGED <<text, phase, exc, tree, labels, iters, out>>
       ELSE Raise(r)

factor_LPAREN ==
    /\ Running("factor", "start")
    /\ current_token.type = LPAREN
    /\ LET r == eat_token(current_token, LPAREN, text, pos) IN
       IF r.ok
       THEN /\ current_token' = r.token
            /\ pos' = r.pos
            /\ stack' = Below \o <<Frame("factor", "paren", NoToken, NoNode),
                                   Call("expr_OR")>>
            /\ UNCHANGED <<text, variables, ret, phase, exc, tree, labels,
                           iters, out>>
       ELSE Raise(r)

factor_RPAREN ==
    /\ Running("factor", "paren")
    /\ LET r == eat_token(current_token, RPAREN, text, pos) IN
       IF r.ok
       THEN /\ current_token' = r.token
            /\ pos' = r.pos
            /\ stack' = Below
            /\ UNCHANGED <<text, variables, ret, phase, exc, tree, labels,
                           iters, out>>
       ELSE Raise(r)

factor_raise ==
    /\ Running("factor", "start")
    /\ current_token.type \notin {NOT, VAR, LPAREN}
    /\ Raise([ok |-> FALSE, token |-> current_token, pos |-> pos,
              exc |-> raise_exception(<<"Invalid syntax, expected", "factor">>, pos)])

(***************************************************************************)
(* Calculator                                                              *)
(***************************************************************************)
\* visit of Calculator.expr: the list `exprs` after the visit and the
\* string the visit returns
RECURSIVE expr_visit_CountInternal(_, _)
expr_visit_CountInternal(node, exprs) ==
    CASE node.kind = "BinaryOperator" ->
           LET l == expr_visit_CountInternal(node.left, exprs)
               r == expr_visit_CountInternal(node.right, l.exprs)
               appended == Append(r.exprs, l.ref \o " " \o node.token.type \o " " \o r.ref)
           IN [exprs |-> appended, ref |-> "[" \o ToString(Len(appended) - Len(variables)) \o "]"]
      [] node.kind = "UnaryOperator" ->
           LET e == expr_visit_CountInternal(node.expr, exprs)
               appended == Append(e.exprs, node.token.type \o " " \o e.ref)
           IN [exprs |-> appended, ref |-> "[" \o ToString(Len(appended) - Len(variables)) \o "]"]
      [] node.kind = "Variable" ->
           [exprs |-> exprs, ref |-> node.token.value]

RECURSIVE expr_visit(_, _)
expr_visit(node, exprs) ==
    CASE node.kind = "BinaryOperator" ->
           LET l == expr_visit(node.left, exprs)
               r == expr_visit(node.right, l.exprs)
               appended == Append(r.exprs, l.ref \o " " \o node.token.type \o " " \o r.ref)
           IN [exprs |-> appended, ref |-> "[" \o ToString(Len(appended)) \o "]"]
      [] node.kind = "UnaryOperator" ->
           LET e == expr_visit(node.expr, exprs)
               appended == Append(e.exprs, node.token.type \o " " \o e.ref)
           IN [exprs |-> appended, ref |-> "[" \o ToString(Len(appended)) \o "]"]
      [] node.kind = "Variable" ->
           [exprs |-> exprs, ref |-> node.token.value]

\* Calculator.expr(verbose) -> (indices, exprs)
Calculator_expr(verbose) ==
    LET names == keys(variables)
        n == Len(names)
        visited == expr_visit(tree, names).exprs
        exprs == IF verbose
                 THEN IF n = Len(visited) THEN names \o names ELSE visited
                 ELSE Append(names, "[result]")
    IN [indices |-> [i \in 1..Len(exprs) |-> i], exprs |-> exprs]

apply(operator, x, y) ==
    CASE operator = "and_" -> x /\ y
      [] operator = "xor" -> x # y
      [] operator = "or_" -> x \/ y

\* visit of Calculator.result_iterator: the value returned and the list
\* `results` after the visit
RECURSIVE result_visit(_, _, _, _)
result_visit(node, values, results, verbose) ==
    CASE node.kind = "BinaryOperator" ->
           LET r == result_visit(node.right, values, results, verbose)
               l == result_visit(node.left, values, r.results, verbose)
               sub_result == apply(node.operator, r.value, l.value)
           IN [value |-> sub_result,
               results |-> IF verbose THEN Append(l.results, sub_result)
                           ELSE l.results]
      [] node.kind = "UnaryOperator" ->
           LET e == result_visit(node.expr, values, results, verbose)
               sub_result == ~e.value
           IN [value |-> sub_result,
               results |-> IF verbose THEN Append(e.results, sub_result)
                           ELSE e.results]
      [] node.kind = "Variable" ->
           [value |-> values[node.id + 1], results |-> results]

RECURSIVE pow2(_)
pow2(n) == IF n = 0 THEN 1 ELSE 2 * pow2(n - 1)

\* [bool((mask >> i) & 1) for i in range(n)]
mask_values_MsbFirst(mask, n) ==
    [i \in 1..n |-> ((mask \div pow2(n - i)) % 2) = 1]

mask_values(mask, n) ==
    [i \in 1..n |-> ((mask \div pow2(i - 1)) % 2) = 1]

\* the body of the for loop: the pair the generator yields for `mask`
loop_body(mask, n, verbose) ==
    LET values == mask_values(mask, n)
        visited == result_visit(tree, values, <<>>, verbose)
        results == IF ~verbose \/ visited.results = <<>>
                   THEN Append(visited.results, visited.value)
                   ELSE visited.results
    IN [values |-> values, results |-> results]

Generators == {1, 2}

NoGenerator == [pc |-> "none", verbose |-> FALSE, n |-> 0, limit |-> 0, mask |-> 0]

\* no call of calculator.expr yet
NoLabels == [called |-> FALSE, verbose |-> FALSE, indices |-> <<>>, exprs |-> <<>>]

\* a call of calculator.expr(verbose); `labels` is the last call and what
\* it returned
Calculator_expr_call(verbose) ==
    /\ phase = "ready"
    /\ labels' = [called |-> TRUE, verbose |-> verbose,
                  indices |-> Calculator_expr(verbose).indices,
                  exprs |-> Calculator_expr(verbose).exprs]
    /\ UNCHANGED <<text, pos, current_token, variables, stack, ret, phase, exc,
                   tree, iters, out>>

\* a call of calculator.result_iterator(verbose): a generator that has
\* not run yet
result_iterator(g, verbose) ==
    /\ phase = "ready"
    /\ iters[g].pc = "none"
    /\ iters' = [iters EXCEPT ![g] = [NoGenerator EXCEPT !.pc = "created",
                                                         !.verbose = verbose]]
    /\ UNCHANGED <<text, pos, current_token, variables, stack, ret, phase, exc,
                   tree, labels, out>>

\* next(generator) with every generator reading one shared mask counter
generator_next_SharedMask(g) ==
    /\ phase = "ready"
    /\ iters[g].pc \in {"created", "yielded"}
    /\ LET n == Len(variables)
           limit == pow2(n)
           started == {h \in Generators : iters[h].pc \in {"yielded", "done"}}
           mask == IF started = {} THEN 0
                   ELSE 1 + CHOOSE m \in {iters[h].mask : h \in started} :
                                \A h \in started : iters[h].mask <= m
       IN IF mask < limit
          THEN /\ iters' = [iters EXCEPT ![g] = [@ EXCEPT !.pc = "yielded", !.n = n,
                                                 !.limit = limit, !.mask = mask]]
               /\ out' = [out EXCEPT ![g] = Append(@, loop_body(mask, n, iters[g].verbose))]
          ELSE /\ iters' = [iters EXCEPT ![g] = [@ EXCEPT !.pc = "done", !.n = n,
                                                 !.limit = limit, !.mask = mask]]
               /\ out' = out
    /\ UNCHANGED <<text, pos, current_token, variables, stack, ret, phase, exc,
                   tree, labels>>

\* next(generator): from the call or the last yield to the next yield, or
\* to the end of the range
generator_next(g) ==
    /\ phase = "ready"
    /\ iters[g].pc \in {"created", "yielded"}
    /\ LET n == IF iters[g].pc = "created" THEN Len(variables) ELSE iters[g].n
           limit == IF iters[g].pc = "created" THEN pow2(n) ELSE iters[g].limit
           mask == IF iters[g].pc = "created" THEN 0 ELSE iters[g].mask + 1
       IN IF mask < limit
          THEN /\ iters' = [iters EXCEPT ![g] = [@ EXCEPT !.pc = "yielded", !.n = n,
                                                 !.limit = limit, !.mask = mask]]
               /\ out' = [out EXCEPT ![g] = Append(@, loop_body(mask, n, iters[g].verbose))]
          ELSE /\ iters' = [iters EXCEPT ![g] = [@ EXCEPT !.pc = "done", !.n = n,
                                                 !.limit = limit, !.mask = mask]]
               /\ out' = out
    /\ UNCHANGED <<text, pos, current_token, variables, stack, ret, phase, exc,
                   tree, labels>>

(***************************************************************************)
(* The input texts                                                         *)
(***************************************************************************)
\* !a
Text_not_a == <<"!", "a">>

\* a & (b | !a)
Text_a_and_b_or_not_a_grouped == <<"a", " ", "&", " ", "(", "b", " ", "|", " ", "!", "a", ")">>

\* a & b | !a
Text_a_and_b_or_not_a == <<"a", " ", "&", " ", "b", " ", "|", " ", "!", "a">>

\* a & b & c
Text_a_and_b_and_c == <<"a", " ", "&", " ", "b", " ", "&", " ", "c">>

\* a ^ b ^ c
Text_a_xor_b_xor_c == <<"a", " ", "^", " ", "b", " ", "^", " ", "c">>

\* a | b | c
Text_a_or_b_or_c == <<"a", " ", "|", " ", "b", " ", "|", " ", "c">>

\* a &
Text_a_and == <<"a", " ", "&">>

\* a # b
Text_a_hash_b == <<"a", " ", "#", " ", "b">>

\* (a
Text_open_a == <<"(", "a">>

\* a b
Text_a_b == <<"a", " ", "b">>

\* a )
Text_a_close == <<"a", " ", ")">>

\* a bcd
Text_a_bcd == <<"a", " ", "b", "c", "d">>

\* a & | b
Text_a_and_or_b == <<"a", " ", "&", " ", "|", " ", "b">>

\* !!a
Text_not_not_a == <<"!", "!", "a">>

\* b1 & a | b1
Text_b1_and_a_or_b1 == <<"b", "1", " ", "&", " ", "a", " ", "|", " ", "b", "1">>

Examples == {Text_not_a,
             Text_a_and_b_or_not_a_grouped,
             Text_a_and_b_or_not_a,
             Text_a_and_b_and_c,
             Text_a_xor_b_xor_c,
             Text_a_or_b_or_c,
             Text_a_and,
             Text_a_hash_b,
             Text_open_a,
             Text_a_b,
             Text_a_close,
             Text_a_bcd,
             Text_a_and_or_b,
             Text_not_not_a,
             Text_b1_and_a_or_b1}

\* every text of at most MaxLen characters over these characters
Alphabet == {"a", "1", " ", "#", "(", ")", "!", "&", "^", "|"}

ShortTexts == UNION {[1..n -> Alphabet] : n \in 0..MaxLen}

\* operand (operator operand)* with at most MaxOps operators
Operands == {<<"a">>, <<"b">>, <<"!", "a">>, <<"!", "b">>}

Operators == {AND, XOR, OR}

RECURSIVE Chains(_)
Chains(k) ==
    IF k = 0 THEN Operands
    ELSE {c \o <<o>> \o x : c \in Chains(k - 1), o \in Operators, x \in Operands}

FlatTexts == UNION {Chains(k) : k \in 0..MaxOps}

\* two operators with one pair of parentheses
GroupedTexts ==
    {<<"(">> \o x \o <<o1>> \o y \o <<")", o2>> \o z :
        x \in Operands, y \in {<<"a">>, <<"b">>}, z \in {<<"a">>, <<"b">>},
        o1 \in Operators, o2 \in Operators}
    \cup
    {x \o <<o1, "(">> \o y \o <<o2>> \o z \o <<")">> :
        x \in {<<"a">>, <<"b">>}, y \in {<<"a">>, <<"b">>}, z \in Operands,
        o1 \in Operators, o2 \in Operators}
    \cup
    {<<"!", "(">> \o x \o <<o1>> \o y \o <<")">> :
        x \in {<<"a">>, <<"b">>}, y \in {<<"a">>, <<"b">>}, o1 \in Operators}

Texts == Examples \cup ShortTexts \cup FlatTexts \cup GroupedTexts

(***************************************************************************)
(* Specifications                                                          *)
(***************************************************************************)
\* Lexer.__init__
InitWith(texts) ==
    /\ text \in texts
    /\ pos = 0
    /\ current_token = NoToken
    /\ variables = <<>>
    /\ stack = <<>>
    /\ ret = NoNode
    /\ phase = "lexer"
    /\ exc = NoExc
    /\ tree = NoNode
    /\ labels = NoLabels
    /\ iters = [g \in Generators |-> NoGenerator]
    /\ out = [g \in Generators |-> <<>>]

Init == InitWith(Texts)

Construct ==
    \/ Parser_init
    \/ Calculator_init
    \/ expr_call
    \/ expr_return
    \/ \E fn \in BinaryLevels : binary_call(fn)
    \/ \E fn \in BinaryLevels : binary_first(fn)
    \/ \E fn \in BinaryLevels : binary_fold(fn)
    \/ factor_NOT
    \/ factor_NOT_return
    \/ factor_VAR
    \/ factor_LPAREN
    \/ factor_RPAREN
    \/ factor_raise

\* one consumer of the calculator
Next ==
    \/ Construct
    \/ \E verbose \in BOOLEAN : Calculator_expr_call(verbose)
    \/ \E verbose \in BOOLEAN : result_iterator(1, verbose)
    \/ generator_next(1)

Spec == Init /\ [][Next]_vars

\* two generators over one calculator, their steps interleaved
InitTwo == InitWith(Examples \cup GroupedTexts)

NextTwo ==
    \/ Construct
    \/ \E verbose \in BOOLEAN : Calculator_expr_call(verbose)
    \/ \E g \in Generators, verbose \in BOOLEAN : result_iterator(g, verbose)
    \/ \E g \in Generators : generator_next(g)

SpecTwo == InitTwo /\ [][NextTwo]_vars

(***************************************************************************)
(* What the properties are stated against                                  *)
(***************************************************************************)
\* the tokens of a text before its EOF (up to the first invalid character)
RECURSIVE Tokens(_, _)
Tokens(txt, p) ==
    LET r == get_next_token(txt, p) IN
    IF ~r.ok \/ r.token.type = EOF THEN <<>>
    ELSE <<r.token>> \o Tokens(txt, r.pos)

Types(toks) == [i \in 1..Len(toks) |-> toks[i].type]

IsInvalidCharacter(c) ==
    ~isspace(c) /\ ~isalnum(c) /\ c \notin SINGLE_CHARACTER_TOKENS

Lexable(txt) == \A i \in 1..Len(txt) : ~IsInvalidCharacter(txt[i])

\* membership in the grammar, by derivation:
\*   or_expr  := xor_expr ( '|' xor_expr )*
\*   xor_expr := and_expr ( '^' and_expr )*
\*   and_expr := factor   ( '&' factor )*
\*   factor   := '!' factor | VAR | '(' or_expr ')'
RECURSIVE IsOrExpr(_), IsXorExpr(_), IsAndExpr(_), IsFactor(_)
IsOrExpr(t) ==
    \/ IsXorExpr(t)
    \/ \E i \in 2..(Len(t) - 1) :
          /\ t[i] = OR
          /\ IsXorExpr(SubSeq(t, i + 1, Len(t)))
          /\ IsOrExpr(SubSeq(t, 1, i - 1))

IsXorExpr(t) ==
    \/ IsAndExpr(t)
    \/ \E i \in 2..(Len(t) - 1) :
          /\ t[i] = XOR
          /\ IsAndExpr(SubSeq(t, i + 1, Len(t)))
          /\ IsXorExpr(SubSeq(t, 1, i - 1))

IsAndExpr(t) ==
    \/ IsFactor(t)
    \/ \E i \in 2..(Len(t) - 1) :
          /\ t[i] = AND
          /\ IsFactor(SubSeq(t, i + 1, Len(t)))
          /\ IsAndExpr(SubSeq(t, 1, i - 1))

IsFactor(t) ==
    /\ Len(t) >= 1
    /\ \/ Len(t) = 1 /\ t[1] = VAR
       \/ t[1] = NOT /\ IsFactor(Tail(t))
       \/ /\ Len(t) >= 3
          /\ t[1] = LPAREN
          /\ t[Len(t)] = RPAREN
          /\ IsOrExpr(SubSeq(t, 2, Len(t) - 1))

\* the value of a grammatical token sequence grouped by precedence: split
\* at the last operator of the lowest precedence outside all parentheses
Depth(t, i) ==
    Cardinality({j \in 1..(i - 1) : t[j].type = LPAREN})
    - Cardinality({j \in 1..(i - 1) : t[j].type = RPAREN})

LastOutside(t, op) ==
    LET at == {i \in 1..Len(t) : t[i].type = op /\ Depth(t, i) = 0} IN
    IF at = {} THEN 0 ELSE CHOOSE i \in at : \A j \in at : j <= i

RECURSIVE GroupedValue(_, _)
GroupedValue(t, values) ==
    LET o == LastOutside(t, OR)
        x == LastOutside(t, XOR)
        a == LastOutside(t, AND)
        left(i) == GroupedValue(SubSeq(t, 1, i - 1), values)
        right(i) == GroupedValue(SubSeq(t, i + 1, Len(t)), values)
    IN IF o > 0 THEN left(o) \/ right(o)
       ELSE IF x > 0 THEN left(x) # right(x)
       ELSE IF a > 0 THEN left(a) /\ right(a)
       ELSE IF t[1].type = NOT THEN ~GroupedValue(Tail(t), values)
       ELSE IF t[1].type = LPAREN THEN GroupedValue(SubSeq(t, 2, Len(t) - 1), values)
       ELSE values[lookup(variables, t[1].value) + 1]

Masks == 0..(pow2(Len(variables)) - 1)

RootValue(mask) ==
    result_visit(tree, mask_values(mask, Len(variables)), <<>>, FALSE).value

\* the internal nodes of a tree, children before their parent, the left
\* child's before the right child's
RECURSIVE Emitted(_)
Emitted(node) ==
    CASE node.kind = "BinaryOperator" ->
           Emitted(node.left) \o Emitted(node.right) \o <<node>>
      [] node.kind = "UnaryOperator" -> Emitted(node.expr) \o <<node>>
      [] OTHER -> <<>>

NodeValue(node, values) == result_visit(node, values, <<>>, FALSE).value

\* the label of the j-th emitted node when the i-th emitted node is
\* referred to as [base + i]
Reference(child, j, base) ==
    IF child.kind = "Variable" THEN child.token.value
    ELSE "[" \o ToString(base + j) \o "]"

LabelOf(emitted, j, base) ==
    LET node == emitted[j] IN
    IF node.kind = "UnaryOperator"
    THEN node.token.type \o " " \o Reference(node.expr, j - 1, base)
    ELSE Reference(node.left, j - 1 - Len(Emitted(node.right)), base)
         \o " " \o node.token.type \o " "
         \o Reference(node.right, j - 1, base)

VerboseLabels == labels.called /\ labels.verbose

\* the rows a generator yields when it runs alone
AloneRows(verbose) ==
    [k \in 1..pow2(Len(variables)) |-> loop_body(k - 1, Len(variables), verbose)]

IsPrefix(s, t) == Len(s) <= Len(t) /\ s = SubSeq(t, 1, Len(s))

\* the number whose bit i is values[i + 1]
RECURSIVE MaskOf(_)
MaskOf(values) ==
    IF values = <<>> THEN 0
    ELSE (IF Head(values) THEN 1 ELSE 0) + 2 * MaskOf(Tail(values))

(***************************************************************************)
(* Properties                                                              *)
(***************************************************************************)
\* C1: every row a verbose generator yields lists the internal nodes'
\* values in the order of the internal-node labels: results[i] is the
\* value of the i-th emitted node, whose label is labels[N + i].
C1_VerboseResultsInLabelOrder ==
    \A g \in Generators :
        iters[g].verbose =>
            \A k \in 1..Len(out[g]) :
                LET emitted == Emitted(tree)
                    row == out[g][k]
                IN emitted # <<>> =>
                     /\ Len(row.results) = Len(emitted)
                     /\ \A i \in 1..Len(emitted) :
                           row.results[i] = NodeValue(emitted[i], row.values)

\* C2: a generator yields one row per mask in ascending order 0, 1, ...,
\* 2^N - 1, exactly 2^N rows when it is exhausted, and the assignment of
\* the row for mask m has length N with element id equal to bit id of m.
C2_RowsInAscendingMaskOrder ==
    \A g \in Generators :
        /\ \A k \in 1..Len(out[g]) :
              /\ Len(out[g][k].values) = Len(variables)
              /\ MaskOf(out[g][k].values) = k - 1
              /\ Len(out[g][k].results) >= 1
        /\ Len(out[g]) <= pow2(Len(variables))
        /\ iters[g].pc = "yielded" => Len(out[g]) = iters[g].mask + 1
        /\ iters[g].pc = "done" => Len(out[g]) = pow2(Len(variables))
        /\ iters[g].pc \in {"none", "created"} => out[g] = <<>>

C2_Witness ==
    /\ iters[1].pc = "done"
    /\ Len(variables) = 2
    /\ Len(out[1]) = 4
    /\ out[1][2].values = <<TRUE, FALSE>>
    /\ out[1][3].values = <<FALSE, TRUE>>

\* C3: the root value of the parsed tree is, for every assignment, the
\* value of the token sequence grouped by the precedence NOT > AND > XOR >
\* OR with parentheses first; `a & b | !a` has the table of (a & b) | (!a)
\* and not that of a & (b | (!a)).
C3_PrecedenceGrouping ==
    phase = "ready" =>
        /\ \A mask \in Masks :
              RootValue(mask) =
                GroupedValue(Tokens(text, 0), mask_values(mask, Len(variables)))
        /\ text = Text_a_and_b_or_not_a =>
              /\ [mask \in Masks |-> RootValue(mask)]
                   = [mask \in 0..3 |->
                        LET a == mask % 2 = 1
                            b == mask \div 2 = 1
                        IN (a /\ b) \/ ~a]
              /\ \E mask \in Masks :
                    LET a == mask % 2 = 1
                        b == mask \div 2 = 1
                    IN RootValue(mask) # (a /\ (b \/ ~a))

C3_Witness ==
    /\ phase = "ready"
    /\ text = Text_a_and_b_or_not_a
    /\ tree.kind = "BinaryOperator"
    /\ tree.operator = "or_"
    /\ tree.left.kind = "BinaryOperator"
    /\ tree.right.kind = "UnaryOperator"

\* C4 as stated: in the verbose labels the j-th emitted internal node is
\* referred to as [j], whatever the number of variables.
C4_ReferencesCountInternalNodesOnly ==
    VerboseLabels =>
        LET emitted == Emitted(tree) IN
        \A j \in 1..Len(emitted) :
            labels.exprs[Len(variables) + j] = LabelOf(emitted, j, 0)

\* C4 amended: in the verbose labels the j-th emitted internal node is
\* referred to as [N + j], its 1-based position in the whole label list
\* (N variable names first), and the internal-node labels follow the
\* variable names in emission order.
C4_ReferencesAreLabelPositions ==
    VerboseLabels =>
        LET emitted == Emitted(tree)
            n == Len(variables)
        IN /\ SubSeq(labels.exprs, 1, n) = keys(variables)
           /\ emitted # <<>> => Len(labels.exprs) = n + Len(emitted)
           /\ emitted = <<>> => labels.exprs = keys(variables) \o keys(variables)
           /\ \A j \in 1..Len(emitted) :
                 labels.exprs[n + j] = LabelOf(emitted, j, n)
           /\ labels.indices = [i \in 1..Len(labels.exprs) |-> i]
           /\ text = Text_a_and_b_or_not_a_grouped =>
                 labels.exprs = <<"a", "b", "! a", "b | [3]", "a & [4]">>

C4_Witness ==
    /\ VerboseLabels
    /\ text = Text_a_and_b_or_not_a_grouped
    /\ labels.exprs[5] = "a & [4]"

\* C5: a token stream that does not match `expr := or_expr EOF` makes the
\* parse fail with a syntax error raised at the cursor: the construction
\* never completes, no tree is kept, no label and no row is produced, and
\* the parser is never stuck short of a tree or an error.
C5_UngrammaticalFailsWithoutOutput ==
    /\ (Lexable(text) /\ ~IsOrExpr(Types(Tokens(text, 0)))) =>
          /\ phase # "ready"
          /\ tree = NoNode
          /\ ~labels.called
          /\ \A g \in Generators : iters[g].pc = "none" /\ out[g] = <<>>
          /\ phase = "failed" =>
                /\ exc.msg[1] = "Invalid syntax, expected"
                /\ exc.pos = pos
                /\ stack = <<>>
    /\ phase \in {"lexer", "parser", "parsing"} => ENABLED Construct
    /\ phase = "failed" => ~ENABLED Next

C5_Witness ==
    /\ phase = "failed"
    /\ text = Text_open_a
    /\ exc.msg = <<"Invalid syntax, expected", RPAREN>>
    /\ variables # <<>>

\* a left-leaning chain of k binary nodes of one operator
IsLeftChain(node, k, operator) ==
    LET RECURSIVE chain(_, _)
        chain(n, i) ==
            IF i = 0 THEN n.kind # "BinaryOperator"
            ELSE /\ n.kind = "BinaryOperator"
                 /\ n.operator = operator
                 /\ n.right.kind # "BinaryOperator"
                 /\ chain(n.left, i - 1)
    IN chain(node, k)

SameOperatorRun(toks) ==
    LET ops == {i \in 1..Len(toks) : toks[i].type \in Operators} IN
    /\ Cardinality(ops) >= 2
    /\ \A i \in 1..Len(toks) : toks[i].type \notin {LPAREN, RPAREN}
    /\ \A i, j \in ops : toks[i].type = toks[j].type

FoldsToTheLeft ==
    (phase = "parsing" /\ stack # <<>> /\ Top.pc = "fold" /\ phase' = "parsing") =>
        LET built == IF Len(stack') < Len(stack) THEN ret'
                     ELSE stack'[Len(stack)].node
        IN /\ built.kind = "BinaryOperator"
           /\ built.token = Top.token
           /\ built.left = Top.node
           /\ built.right = ret

LeftChains ==
    phase = "ready" =>
        /\ LET toks == Tokens(text, 0)
               ops == {i \in 1..Len(toks) : toks[i].type \in Operators}
           IN SameOperatorRun(toks) =>
                IsLeftChain(tree, Cardinality(ops),
                            level_operator(CHOOSE fn \in BinaryLevels :
                                \E i \in ops : loop_token(fn) = toks[i].type))
        /\ text = Text_a_and_b_and_c =>
              /\ tree.kind = "BinaryOperator"
              /\ tree.right = Variable(Token(VAR, "c"), 2)
              /\ tree.left.kind = "BinaryOperator"
              /\ tree.left.left = Variable(Token(VAR, "a"), 0)
              /\ tree.left.right = Variable(Token(VAR, "b"), 1)
              /\ \A mask \in Masks :
                    LET v == mask_values(mask, 3) IN
                    RootValue(mask) = ((v[1] /\ v[2]) /\ v[3])
              /\ VerboseLabels =>
                    labels.exprs = <<"a", "b", "c", "a & b", "[4] & c">>

\* C6: a run of k >= 2 binary operators of one level folds to the left:
\* every fold builds a BinaryOperator whose left child is the chain so far
\* and whose right child is the operand just parsed; `a & b & c` is
\* (a & b) & c, with two internal-node labels, the second referring to the
\* first on its left and to c on its right.
C6_LeftAssociativeFolding == []LeftChains /\ [][FoldsToTheLeft]_vars

C6_Witness ==
    /\ text = Text_a_and_b_and_c
    /\ VerboseLabels
    /\ Len(labels.exprs) = 5

\* the variable names among the tokens the parser has consumed: those lexed
\* from the text up to the cursor, without the lookahead
ConsumedNames ==
    LET lexed == Tokens(SubSeq(text, 1, pos), 0)
        consumed == IF current_token.type = EOF THEN lexed
                    ELSE SubSeq(lexed, 1, Len(lexed) - 1)
        vs == SelectSeq(consumed, LAMBDA t : t.type = VAR)
    IN [i \in 1..Len(vs) |-> vs[i].value]

RECURSIVE FirstOccurrences(_)
FirstOccurrences(names) ==
    IF names = <<>> THEN <<>>
    ELSE LET front == FirstOccurrences(SubSeq(names, 1, Len(names) - 1))
             last == names[Len(names)]
         IN IF \E i \in 1..Len(front) : front[i] = last THEN front
            ELSE Append(front, last)

RegistryContiguous ==
    /\ \A i \in 1..Len(variables) : variables[i].value = i - 1
    /\ \A i, j \in 1..Len(variables) :
          variables[i].key = variables[j].key => i = j
    /\ phase \in {"parsing", "ready"} =>
          keys(variables) = FirstOccurrences(ConsumedNames)

RegistryEntriesKept ==
    /\ Len(variables') >= Len(variables)
    /\ \A i \in 1..Len(variables) : variables'[i] = variables[i]
    /\ phase = "ready" => variables' = variables

\* C7: at every point the registry maps the distinct names seen so far to
\* the ids 0 .. N-1 in ascending iteration order, the names in the order
\* of their first occurrence in the text; an entry, once made, keeps its
\* name and id, so a repeated name never gets a new id.
C7_RegistryIdsContiguousAndStable ==
    []RegistryContiguous /\ [][RegistryEntriesKept]_vars

C7_Witness ==
    /\ phase = "ready"
    /\ text = Text_b1_and_a_or_b1
    /\ variables = <<[key |-> "b1", value |-> 0], [key |-> "a", value |-> 1]>>
    /\ tree.right = Variable(Token(VAR, "b1"), 0)

LexicalError == phase = "failed" /\ exc.msg[1] = "Invalid character"

InvalidCharacterReported ==
    /\ \A i \in 1..pos : ~IsInvalidCharacter(text[i])
    /\ LexicalError =>
          /\ pos < Len(text)
          /\ IsInvalidCharacter(text[pos + 1])
          /\ exc = [msg |-> <<"Invalid character", text[pos + 1]>>, pos |-> pos]
    /\ (phase = "failed" /\ text = Text_a_hash_b) =>
          exc = [msg |-> <<"Invalid character", "#">>, pos |-> 2]
    /\ (phase \in {"ready", "failed"} /\ ~LexicalError) =>
          \/ Lexable(text)
          \/ phase = "failed" /\ exc.msg[1] = "Invalid syntax, expected"

NoTokenFromFailedCall == LexicalError' => current_token' = current_token

\* C8: the lexer never moves its cursor past a character that is neither
\* whitespace, alphanumeric nor one of ( ) ! & ^ |: it fails there with a
\* lexical error that carries that character and its 0-based offset, and
\* the failing call returns no token; `a # b` fails with `#` and offset 2.
C8_InvalidCharacterFailsAtItsOffset ==
    []InvalidCharacterReported /\ [][NoTokenFromFailedCall]_vars

C8_Witness ==
    /\ LexicalError
    /\ text = Text_a_hash_b
    /\ exc.pos = 2
    /\ current_token = Token(VAR, "a")

\* the number of characters of a token in the text
TokenLength(token) ==
    CASE token.type = VAR -> Len(token.value)
      [] token.type = EOF -> 0
      [] OTHER -> 1

\* C9: every syntax error carries the offset at which the unexpected token
\* starts in the text (for `a bcd`, 2).
C9_SyntaxErrorAtTokenStart ==
    (phase = "failed" /\ exc.msg[1] = "Invalid syntax, expected") =>
        /\ exc.pos = pos - TokenLength(current_token)
        /\ text = Text_a_bcd => exc.pos = 2

RowsAsWhenAlone ==
    \A g \in Generators :
        IF phase = "ready"
        THEN /\ IsPrefix(out[g], AloneRows(iters[g].verbose))
             /\ iters[g].pc = "yielded" => Len(out[g]) = iters[g].mask + 1
             /\ iters[g].pc = "done" => out[g] = AloneRows(iters[g].verbose)
        ELSE out[g] = <<>>

ReadOnlyOnceBuilt ==
    phase = "ready" =>
        /\ UNCHANGED <<text, pos, current_token, variables, tree, phase>>
        /\ \A g \in Generators : IsPrefix(out[g], out'[g])

\* C10: expr and result_iterator leave the tree, the registry and the
\* lexer alone, and with the steps of two generators interleaved each one
\* yields the rows it yields when it runs alone.
C10_InterleavedTraversalsIndependent ==
    []RowsAsWhenAlone /\ [][ReadOnlyOnceBuilt]_vars

C10_Witness ==
    /\ iters[1].pc = "yielded"
    /\ iters[2].pc = "yielded"
    /\ iters[1].verbose
    /\ ~iters[2].verbose
    /\ iters[1].mask = 3
    /\ iters[2].mask = 1
    /\ labels.called

====
